---- MODULE Spec2Model ----
(***************************************************************************)
(* Semantic Scholar MCP server: the two recommendation tool handlers       *)
(* (api/recommendations.py) and the process lifecycle (server.py), as one  *)
(* state machine over the asyncio tasks of the process.                    *)
(*                                                                         *)
(* One action is one run of one task from the point where the event loop   *)
(* resumes it to its next suspension (asyncio is cooperative and single    *)
(* threaded), except for the loop of shutdown(), which is split into one   *)
(* action per iteration and kept atomic by the variable running.           *)
(***************************************************************************)
EXTENDS Integers, Sequences, FiniteSets, TLC

(***************************************************************************)
(* Bounds of the model.                                                    *)
(***************************************************************************)
NumInvocations == 2      \* handler invocations (tasks) in one run
MaxLifecycleInvocations == 1  \* of them, those taken while signals are delivered
MaxSignals == 1          \* SIGTERM/SIGINT deliveries in one run
Capacity == 1            \* tokens of the budget of an endpoint identifier
MaxDrainSteps == 2       \* task steps the loop still runs after run_server ends
MaxLoopErrors == 1       \* unhandled exceptions reported to the loop handler

(***************************************************************************)
(* Program constants.                                                      *)
(***************************************************************************)
MaxLimit == 500          \* "if limit > 500"
TIMEOUT == 30            \* Config.TIMEOUT

(***************************************************************************)
(* Values.  Optional[...] is a record: [none |-> TRUE] for None, otherwise *)
(* [str |-> s] or [list |-> l].                                            *)
(***************************************************************************)
None == [none |-> TRUE]
Str(s) == [str |-> s]
List(l) == [list |-> l]
NoDetails == [k \in {} |-> TRUE]

\* Python truthiness of an Optional[str] / Optional[List]
Truthy(v) ==
    \/ ("str" \in DOMAIN v /\ v.str # "")
    \/ ("list" \in DOMAIN v /\ Len(v.list) > 0)

Endpoint == "/recommendations"

\* EndpointOf with an identifier of its own for the single-paper handler
EndpointOfPerTool(t) ==
    IF t = "single" THEN "/recommendations/forpaper" ELSE "/recommendations"

\* The endpoint identifier each handler passes to rate_limiter.acquire:
\* line 59 in the single-paper handler, line 180 in the multi-paper one.
EndpointOf(t) ==
    IF t = "single" THEN "/recommendations" ELSE "/recommendations"

\* The keys of the rate limiter's state: the handlers' and another tool's.
Endpoints == {EndpointOf("single"), EndpointOf("multi"), "/paper/search"}

(***************************************************************************)
(* The error envelope (utils/errors.py, create_error_response): kind,      *)
(* message and details; details default to the empty mapping.              *)
(***************************************************************************)
create_error_response(kind, message, details) ==
    [kind |-> kind, message |-> message, details |-> details]

IsEnvelope(r) == "kind" \in DOMAIN r
NoResult == [pending |-> TRUE]
HasResult(r) == "pending" \notin DOMAIN r

(***************************************************************************)
(* Response.json(): the body text parsed; a text that is not JSON raises.  *)
(***************************************************************************)
JSONDecodeError == [raised |-> "JSONDecodeError"]
\* a failure that is raised, as opposed to a value that is returned
Raised(r) == "raised" \in DOMAIN r
json(text) ==
    CASE text = "{\"recommendedPapers\": []}" -> [recommendedPapers |-> <<>>]
      [] text = "{\"recommendedPapers\": [{\"paperId\": \"p9\"}]}" ->
             [recommendedPapers |-> <<[paperId |-> "p9"]>>]
      [] text = "{\"error\": \"bad\"}" -> [error |-> "bad"]
      [] OTHER -> JSONDecodeError

\* httpx Response.is_success
is_success(status) == status >= 200 /\ status <= 299

(***************************************************************************)
(* get_paper_recommendations_single, lines 62-76: the local checks, in the *)
(* order of the code.  The result is an envelope, or NoResult when the     *)
(* arguments pass.                                                         *)
(***************************************************************************)
ValidPools == {"recent", "all-cs"}

ValidateSingle(a) ==
    IF a.limit > MaxLimit
    THEN create_error_response("VALIDATION",
             [text |-> "Cannot request more than 500 recommendations"],
             [max_limit |-> MaxLimit, requested |-> a.limit])
    ELSE IF a.from_pool \notin ValidPools
    THEN create_error_response("VALIDATION",
             [text |-> "Invalid paper pool specified"],
             [valid_pools |-> <<"recent", "all-cs">>])
    ELSE NoResult

\* ValidateMulti with the limit check of lines 189-195 left out
ValidateMultiNoLimit(a) ==
    IF ~Truthy(a.positive_paper_ids)
    THEN create_error_response("VALIDATION",
             [text |-> "Must provide at least one positive paper ID"],
             NoDetails)
    ELSE NoResult

(***************************************************************************)
(* get_paper_recommendations_multi, lines 183-195.                         *)
(***************************************************************************)
ValidateMulti(a) ==
    IF ~Truthy(a.positive_paper_ids)
    THEN create_error_response("VALIDATION",
             [text |-> "Must provide at least one positive paper ID"],
             NoDetails)
    ELSE IF a.limit > MaxLimit
    THEN create_error_response("VALIDATION",
             [text |-> "Cannot request more than 500 recommendations"],
             [max_limit |-> MaxLimit, requested |-> a.limit])
    ELSE NoResult

Validate(tool, a) ==
    IF tool = "single" THEN ValidateSingle(a) ELSE ValidateMulti(a)

(***************************************************************************)
(* The request each handler builds (lines 78-92 and 197-213).              *)
(***************************************************************************)
Headers(key) == IF Truthy(key) THEN [x_api_key |-> key.str] ELSE NoDetails

BuildRequest(tool, a, key) ==
    IF tool = "single"
    THEN [method |-> "GET",
          url |-> [path |-> "/recommendations/v1/papers/forpaper/",
                   paper_id |-> a.paper_id],
          params |-> IF Truthy(a.fields)
                     THEN [limit |-> a.limit, from |-> a.from_pool,
                           fields |-> a.fields.str]
                     ELSE [limit |-> a.limit, from |-> a.from_pool],
          headers |-> Headers(key),
          timeout |-> TIMEOUT]
    ELSE [method |-> "POST",
          url |-> [path |-> "/recommendations/v1/papers"],
          params |-> IF Truthy(a.fields)
                     THEN [limit |-> a.limit, fields |-> a.fields.str]
                     ELSE [limit |-> a.limit],
          json |-> [positivePaperIds |-> a.positive_paper_ids.list,
                    negativePaperIds |->
                        IF Truthy(a.negative_paper_ids)
                        THEN a.negative_paper_ids.list ELSE <<>>],
          headers |-> Headers(key),
          timeout |-> TIMEOUT]

(***************************************************************************)
(* What a handler returns for the outcome of its request: lines 94-133 and *)
(* 215-257.  An outcome is a response [status, text, retry_after], a       *)
(* transport timeout, or another raised failure.                           *)
(***************************************************************************)
NotFound(tool, a) ==
    IF tool = "single"
    THEN create_error_response("VALIDATION", [text |-> "Paper not found"],
             [paper_id |-> a.paper_id])
    ELSE create_error_response("VALIDATION",
             [text |-> "One or more input papers not found"],
             [positive_ids |-> a.positive_paper_ids,
              negative_ids |-> a.negative_paper_ids])

\* OnHTTPStatusError with the 429 branch left out
OnHTTPStatusErrorNo429(o, key) ==
    create_error_response("API_ERROR",
        [text |-> "HTTP error", value |-> o.status],
        [response |-> o.text])

\* OnHTTPStatusError reporting every failed request as unauthenticated
OnHTTPStatusErrorAnonymous(o, key) ==
    IF o.status = 429
    THEN create_error_response("RATE_LIMIT",
             [text |-> "Rate limit exceeded. Consider using an API key for higher limits."],
             [retry_after |-> o.retry_after, authenticated |-> FALSE])
    ELSE create_error_response("API_ERROR",
             [text |-> "HTTP error", value |-> o.status],
             [response |-> o.text])

\* except httpx.HTTPStatusError
OnHTTPStatusError(o, key) ==
    IF o.status = 429
    THEN create_error_response("RATE_LIMIT",
             [text |-> "Rate limit exceeded. Consider using an API key for higher limits."],
             [retry_after |-> o.retry_after, authenticated |-> Truthy(key)])
    ELSE create_error_response("API_ERROR",
             [text |-> "HTTP error", value |-> o.status],
             [response |-> o.text])

\* except httpx.TimeoutException
OnTimeout ==
    create_error_response("TIMEOUT",
        [text |-> "Request timed out after", value |-> TIMEOUT, unit |-> "seconds"],
        NoDetails)

\* except Exception
OnException(err) ==
    create_error_response("API_ERROR",
        [text |-> "Failed to get recommendations"], [error |-> err])

\* OnResponse without the 404 rule of lines 95-100: a 404 goes to
\* raise_for_status like any other status
OnResponseNo404(tool, a, o) ==
    IF ~is_success(o.status) THEN [raised |-> "HTTPStatusError"]
    ELSE json(o.text)

\* lines 94-103: the body of the async with block.  It returns a value, or
\* raises HTTPStatusError (raise_for_status) or whatever json() raises.
OnResponse(tool, a, o) ==
    IF o.status = 404 THEN NotFound(tool, a)
    ELSE IF ~is_success(o.status) THEN [raised |-> "HTTPStatusError"]
    ELSE json(o.text)

\* What the try block raises or returns for outcome o.
TryBlock(tool, a, o) ==
    CASE o.type = "response" -> OnResponse(tool, a, o)
      [] o.type = "timeout" -> [raised |-> "TimeoutException"]
      [] OTHER -> [raised |-> o.error]

\* Classify with the last clause, "except Exception", left out
ClassifyNoCatchAll(tool, a, o, key) ==
    LET r == TryBlock(tool, a, o) IN
    IF ~Raised(r) THEN r
    ELSE IF r.raised = "HTTPStatusError" THEN OnHTTPStatusError(o, key)
    ELSE IF r.raised = "TimeoutException" THEN OnTimeout
    ELSE r

\* lines 57-133 and 178-257: the try block and its except clauses, in order
Classify(tool, a, o, key) ==
    LET r == TryBlock(tool, a, o) IN
    IF ~Raised(r) THEN r
    ELSE IF r.raised = "HTTPStatusError" THEN OnHTTPStatusError(o, key)
    ELSE IF r.raised = "TimeoutException" THEN OnTimeout
    ELSE OnException(r.raised)

(***************************************************************************)
(* The asyncio tasks of the process.                                       *)
(***************************************************************************)
R == <<"run_server", 0>>                 \* loop.run_until_complete(run_server())
Other == <<"other", 0>>                  \* a task that is neither a handler nor a shutdown
Handlers == {<<"handler", i>> : i \in 1..NumInvocations}
LifecycleHandlers == {h \in Handlers : h[2] <= MaxLifecycleInvocations}
Shutdowns == {<<"shutdown", j>> : j \in 1..MaxSignals}   \* create_task(shutdown())
Runners == Shutdowns \cup {R}            \* the tasks that run shutdown()
Tasks == Handlers \cup Runners \cup {Other}
NoTask == <<"none", 0>>

VARIABLES
    tstate,        \* task -> absent | ready | waitfut | waittask | wedged
                   \*         | returned | cancelled | failed
    waitOn,        \* task -> the task it awaits (Task._fut_waiter), or NoTask
    mustCancel,    \* task -> a cancellation is pending for it
    pc,            \* task -> position in its coroutine
    running,       \* the task inside a step that has not suspended yet, or NoTask
    sdTasks,       \* runner -> tasks of its snapshot not yet cancelled and awaited
    exitCause,     \* how run_server leaves its try block: none | return | raise | cancel
    tool,          \* handler -> single | multi
    args,          \* handler -> its arguments
    acquireCalls,  \* handler -> calls of rate_limiter.acquire
    requests,      \* handler -> outbound requests issued
    sent,          \* handler -> the request issued
    ownClient,     \* handler -> it holds an httpx.AsyncClient of its own
    result,        \* handler -> the value returned
    outcome,       \* handler -> how its request ended
    bucket,        \* endpoint identifier -> tokens left in its budget
    apiKey,        \* get_api_key()
    sharedClient,  \* none | open | closed: the client of utils/http.py
    clientInits,   \* calls of initialize_client
    cleanupCalls,  \* calls of cleanup_client
    mcpCleanups,   \* calls of mcp.cleanup
    loop,          \* running | drain | closed
    drainLeft,     \* steps the loop may still run once run_server is done
    unawaited,     \* coroutines of handle_exception created and never awaited
    okAfterTeardown \* a handler got a successful response after cleanup_client

taskVars == <<tstate, waitOn, mustCancel, pc, running>>
handlerVars == <<tool, args, acquireCalls, requests, sent, ownClient, result,
                 outcome>>
clientVars == <<sharedClient, clientInits, cleanupCalls, mcpCleanups>>
vars == <<tstate, waitOn, mustCancel, pc, running, sdTasks, exitCause,
          tool, args, acquireCalls, requests, sent, ownClient, result, outcome,
          bucket, apiKey, sharedClient, clientInits, cleanupCalls, mcpCleanups,
          loop, drainLeft, unawaited, okAfterTeardown>>

Done(t) == tstate[t] \in {"returned", "cancelled", "failed"}
\* asyncio.all_tasks(): the tasks of the loop that are not done
all_tasks == {t \in Tasks : tstate[t] # "absent" /\ ~Done(t)}

NoArgs == [paper_id |-> "", fields |-> None, limit |-> 0, from_pool |-> "",
           positive_paper_ids |-> None, negative_paper_ids |-> None]
NoRequest == [method |-> "none"]
NoOutcome == [type |-> "none"]

InitWith(keys) ==
    /\ tstate = [t \in Tasks |-> IF t = R THEN "ready"
                                 ELSE IF t = Other THEN "waitfut" ELSE "absent"]
    /\ waitOn = [t \in Tasks |-> NoTask]
    /\ mustCancel = [t \in Tasks |-> FALSE]
    /\ pc = [t \in Tasks |-> IF t = R THEN "init"
                             ELSE IF t = Other THEN "other" ELSE "none"]
    /\ running = NoTask
    /\ sdTasks = [c \in Runners |-> {}]
    /\ exitCause = "none"
    /\ tool = [h \in Handlers |-> "none"]
    /\ args = [h \in Handlers |-> NoArgs]
    /\ acquireCalls = [h \in Handlers |-> 0]
    /\ requests = [h \in Handlers |-> 0]
    /\ sent = [h \in Handlers |-> NoRequest]
    /\ ownClient = [h \in Handlers |-> FALSE]
    /\ result = [h \in Handlers |-> NoResult]
    /\ outcome = [h \in Handlers |-> NoOutcome]
    /\ bucket = [e \in Endpoints |-> Capacity]
    /\ apiKey \in keys
    /\ sharedClient = "none"
    /\ clientInits = 0
    /\ cleanupCalls = 0
    /\ mcpCleanups = 0
    /\ loop = "running"
    /\ drainLeft = MaxDrainSteps
    /\ unawaited = 0
    /\ okAfterTeardown = FALSE

(***************************************************************************)
(* The event loop runs one ready task at a time.  After run_server is done *)
(* main() lets the loop run one more sleep(0) and closes it (lines 86-89). *)
(***************************************************************************)
CanStep ==
    /\ running = NoTask
    /\ \/ loop = "running"
       \/ loop = "drain" /\ drainLeft > 0

Tick == drainLeft' = IF loop = "drain" THEN drainLeft - 1 ELSE drainLeft

(***************************************************************************)
(* Arguments and request outcomes the environment chooses from.            *)
(***************************************************************************)
SingleArgs(limits, pools, fieldss) ==
    {[paper_id |-> "p1", fields |-> f, limit |-> l, from_pool |-> p,
      positive_paper_ids |-> None, negative_paper_ids |-> None] :
        l \in limits, p \in pools, f \in fieldss}

MultiArgs(limits, poss, negs, fieldss) ==
    {[paper_id |-> "", fields |-> f, limit |-> l, from_pool |-> "",
      positive_paper_ids |-> ps, negative_paper_ids |-> ng] :
        l \in limits, ps \in poss, ng \in negs, f \in fieldss}

Response(status, text, retry_after) ==
    [type |-> "response", status |-> status, text |-> text,
     retry_after |-> retry_after]

AllArgs(t) ==
    IF t = "single"
    THEN SingleArgs({100, MaxLimit, MaxLimit + 1}, {"recent", "all-cs", "bogus"},
                    {None, Str("title")})
    ELSE MultiArgs({100, MaxLimit, MaxLimit + 1}, {List(<<>>), List(<<"p1">>)},
                   {None, List(<<"n1">>)}, {None})

AllOutcomes ==
    {Response(200, "{\"recommendedPapers\": []}", None),
     Response(200, "{\"recommendedPapers\": [{\"paperId\": \"p9\"}]}", None),
     Response(200, "<html>", None),
     Response(204, "", None),
     Response(301, "moved", None),
     Response(404, "{\"error\": \"bad\"}", None),
     Response(429, "slow down", None),
     Response(429, "slow down", Str("30")),
     Response(500, "oops", None),
     Response(503, "{\"error\": \"bad\"}", None),
     [type |-> "timeout"],
     [type |-> "error", error |-> "ConnectError"]}

FewArgs(t) ==
    IF t = "single"
    THEN SingleArgs({MaxLimit}, {"recent"}, {None})
    ELSE MultiArgs({MaxLimit}, {List(<<"p1">>)}, {None}, {None})

FewOutcomes ==
    {Response(200, "{\"recommendedPapers\": []}", None),
     [type |-> "timeout"]}

ArgChoices(full, t) == IF full THEN AllArgs(t) ELSE FewArgs(t)
OutcomeChoices(full) == IF full THEN AllOutcomes ELSE FewOutcomes

(***************************************************************************)
(* A tool invocation arrives: the server runs the handler as a task.       *)
(* Invocations are taken from the moment run_server has entered            *)
(* mcp.run_async() until mcp.cleanup() has run: shutdown() does nothing    *)
(* before that to stop them.                                               *)
(***************************************************************************)
Accepting ==
    /\ loop = "running"
    /\ tstate[R] \in {"waitfut", "waittask", "wedged"}
    /\ mcpCleanups = 0

Invoke(h, full) ==
    /\ running = NoTask
    /\ Accepting
    /\ tstate[h] = "absent"
    /\ \A g \in Handlers : g[2] < h[2] => tstate[g] # "absent"
    /\ \E t \in {"single", "multi"} : \E a \in ArgChoices(full, t) :
          /\ tool' = [tool EXCEPT ![h] = t]
          /\ args' = [args EXCEPT ![h] = a]
    /\ tstate' = [tstate EXCEPT ![h] = "ready"]
    /\ pc' = [pc EXCEPT ![h] = "start"]
    /\ UNCHANGED <<waitOn, mustCancel, running, sdTasks, exitCause, acquireCalls,
                   requests, sent, ownClient, result, outcome, bucket, apiKey,
                   clientVars, loop, drainLeft, unawaited, okAfterTeardown>>

(***************************************************************************)
(* The handler body after rate_limiter.acquire has returned: lines 62-92   *)
(* and 183-213.  It returns a VALIDATION envelope, or opens a client of    *)
(* its own, sends the request and suspends on the response.                *)
(***************************************************************************)
AfterAcquire(h) ==
    LET v == Validate(tool[h], args[h]) IN
    IF HasResult(v)
    THEN /\ result' = [result EXCEPT ![h] = v]
         /\ tstate' = [tstate EXCEPT ![h] = "returned"]
         /\ pc' = [pc EXCEPT ![h] = "end"]
         /\ UNCHANGED <<ownClient, sent, requests>>
    ELSE /\ ownClient' = [ownClient EXCEPT ![h] = TRUE]
         /\ sent' = [sent EXCEPT ![h] = BuildRequest(tool[h], args[h], apiKey)]
         /\ requests' = [requests EXCEPT ![h] = @ + 1]
         /\ tstate' = [tstate EXCEPT ![h] = "waitfut"]
         /\ pc' = [pc EXCEPT ![h] = "request"]
         /\ UNCHANGED result

\* The first step of the handler task: line 60, then the body if acquire
\* returns without suspending.
HandlerStart(h) ==
    /\ CanStep /\ Tick
    /\ tstate[h] = "ready" /\ pc[h] = "start" /\ ~mustCancel[h]
    /\ acquireCalls' = [acquireCalls EXCEPT ![h] = @ + 1]
    /\ IF bucket[EndpointOf(tool[h])] > 0
       THEN /\ bucket' = [bucket EXCEPT ![EndpointOf(tool[h])] = @ - 1]
            /\ AfterAcquire(h)
       ELSE /\ tstate' = [tstate EXCEPT ![h] = "waitfut"]
            /\ pc' = [pc EXCEPT ![h] = "acquire"]
            /\ UNCHANGED <<bucket, ownClient, sent, requests, result>>
    /\ UNCHANGED <<waitOn, mustCancel, running, sdTasks, exitCause, tool, args,
                   outcome, apiKey, clientVars, loop, unawaited, okAfterTeardown>>

\* rate_limiter.acquire returns after waiting for the budget.
AcquireResume(h) ==
    /\ CanStep /\ Tick
    /\ tstate[h] = "waitfut" /\ pc[h] = "acquire" /\ ~mustCancel[h]
    /\ bucket[EndpointOf(tool[h])] > 0
    /\ bucket' = [bucket EXCEPT ![EndpointOf(tool[h])] = @ - 1]
    /\ AfterAcquire(h)
    /\ UNCHANGED <<waitOn, mustCancel, running, sdTasks, exitCause, tool, args,
                   acquireCalls, outcome, apiKey, clientVars, loop, unawaited,
                   okAfterTeardown>>

\* The task of a finished invocation is dropped once nothing refers to it;
\* its place is free for a later invocation.
Forget(h) ==
    /\ running = NoTask /\ loop = "running"
    /\ Done(h)
    /\ \A c \in Runners : h \notin sdTasks[c] /\ waitOn[c] # h
    /\ tstate' = [tstate EXCEPT ![h] = "absent"]
    /\ pc' = [pc EXCEPT ![h] = "none"]
    /\ tool' = [tool EXCEPT ![h] = "none"]
    /\ args' = [args EXCEPT ![h] = NoArgs]
    /\ acquireCalls' = [acquireCalls EXCEPT ![h] = 0]
    /\ requests' = [requests EXCEPT ![h] = 0]
    /\ sent' = [sent EXCEPT ![h] = NoRequest]
    /\ result' = [result EXCEPT ![h] = NoResult]
    /\ outcome' = [outcome EXCEPT ![h] = NoOutcome]
    /\ UNCHANGED <<waitOn, mustCancel, running, sdTasks, exitCause, ownClient,
                   bucket, apiKey, clientVars, loop, drainLeft, unawaited,
                   okAfterTeardown>>

\* The budget refills with time.
Refill ==
    /\ loop # "closed"
    /\ \E e \in Endpoints :
          /\ bucket[e] < Capacity
          /\ bucket' = [bucket EXCEPT ![e] = @ + 1]
    /\ UNCHANGED <<taskVars, sdTasks, exitCause, handlerVars, apiKey, clientVars,
                   loop, drainLeft, unawaited, okAfterTeardown>>

\* Respond with a retry: after a timeout the request is sent once more
RespondRetry(h, full) ==
    /\ CanStep /\ Tick
    /\ tstate[h] = "waitfut" /\ pc[h] = "request" /\ ~mustCancel[h]
    /\ \E o \in OutcomeChoices(full) :
         LET r == Classify(tool[h], args[h], o, apiKey) IN
         IF o.type = "timeout" /\ requests[h] < 2
         THEN /\ requests' = [requests EXCEPT ![h] = @ + 1]
              /\ UNCHANGED <<outcome, result, tstate, okAfterTeardown,
                             ownClient, pc>>
         ELSE /\ outcome' = [outcome EXCEPT ![h] = o]
              /\ result' = [result EXCEPT ![h] =
                                IF Raised(r) THEN NoResult ELSE r]
              /\ tstate' = [tstate EXCEPT ![h] =
                                IF Raised(r) THEN "failed" ELSE "returned"]
              /\ okAfterTeardown' =
                     (okAfterTeardown
                        \/ (sharedClient = "closed" /\ ~Raised(r)
                               /\ ~IsEnvelope(r)))
              /\ ownClient' = [ownClient EXCEPT ![h] = FALSE]
              /\ pc' = [pc EXCEPT ![h] = "end"]
              /\ UNCHANGED requests
    /\ UNCHANGED <<waitOn, mustCancel, running, sdTasks, exitCause, tool, args,
                   acquireCalls, sent, bucket, apiKey, clientVars, loop,
                   unawaited>>

\* The request ends and the handler returns: lines 92-133 and 213-257.
\* A failure that no except clause catches would end the task failed.
Respond(h, full) ==
    /\ CanStep /\ Tick
    /\ tstate[h] = "waitfut" /\ pc[h] = "request" /\ ~mustCancel[h]
    /\ \E o \in OutcomeChoices(full) :
         LET r == Classify(tool[h], args[h], o, apiKey) IN
         /\ outcome' = [outcome EXCEPT ![h] = o]
         /\ result' = [result EXCEPT ![h] = IF Raised(r) THEN NoResult ELSE r]
         /\ tstate' = [tstate EXCEPT ![h] =
                           IF Raised(r) THEN "failed" ELSE "returned"]
         /\ okAfterTeardown' =
                (okAfterTeardown
                   \/ (sharedClient = "closed" /\ ~Raised(r) /\ ~IsEnvelope(r)))
    /\ ownClient' = [ownClient EXCEPT ![h] = FALSE]
    /\ pc' = [pc EXCEPT ![h] = "end"]
    /\ UNCHANGED <<waitOn, mustCancel, running, sdTasks, exitCause, tool, args,
                   acquireCalls, requests, sent, bucket, apiKey, clientVars,
                   loop, unawaited>>

\* HandlerCancelled with the cancellation caught by the last except clause
\* and turned into an envelope
HandlerCancelSwallowed(h) ==
    /\ CanStep /\ Tick
    /\ tstate[h] \in {"ready", "waitfut"} /\ mustCancel[h]
    /\ tstate' = [tstate EXCEPT ![h] = "returned"]
    /\ result' = [result EXCEPT ![h] = OnException("CancelledError")]
    /\ mustCancel' = [mustCancel EXCEPT ![h] = FALSE]
    /\ ownClient' = [ownClient EXCEPT ![h] = FALSE]
    /\ pc' = [pc EXCEPT ![h] = "end"]
    /\ UNCHANGED <<waitOn, running, sdTasks, exitCause, tool, args, acquireCalls,
                   requests, sent, outcome, bucket, apiKey, clientVars,
                   loop, unawaited, okAfterTeardown>>

\* The handler is resumed with CancelledError, which "except Exception"
\* does not catch: the async with block closes the client and the task
\* ends cancelled.
HandlerCancelled(h) ==
    /\ CanStep /\ Tick
    /\ tstate[h] \in {"ready", "waitfut"} /\ mustCancel[h]
    /\ tstate' = [tstate EXCEPT ![h] = "cancelled"]
    /\ mustCancel' = [mustCancel EXCEPT ![h] = FALSE]
    /\ ownClient' = [ownClient EXCEPT ![h] = FALSE]
    /\ pc' = [pc EXCEPT ![h] = "end"]
    /\ UNCHANGED <<waitOn, running, sdTasks, exitCause, tool, args, acquireCalls,
                   requests, sent, result, outcome, bucket, apiKey, clientVars,
                   loop, unawaited, okAfterTeardown>>

(***************************************************************************)
(* Task.cancel().  The request travels along the chain of awaited tasks to *)
(* the task at its end, which gets the cancellation at its next resumption.*)
(* A chain that closes on itself makes cancel() recurse without end:       *)
(* RecursionError is raised in the caller.                                 *)
(***************************************************************************)
Cycle == <<"cycle", 0>>

RECURSIVE Leaf(_, _)
Leaf(x, seen) ==
    IF x \in seen THEN Cycle
    ELSE IF tstate[x] \in {"waittask", "wedged"} /\ ~Done(waitOn[x])
    THEN Leaf(waitOn[x], seen \cup {x})
    ELSE x

CancelRaises(x) == ~Done(x) /\ Leaf(x, {}) = Cycle

AfterCancel(x) ==
    IF Done(x) \/ Leaf(x, {}) = Cycle THEN mustCancel
    ELSE [mustCancel EXCEPT ![Leaf(x, {})] = TRUE]

\* The coroutine of task c ends; when it is run_server, run_until_complete
\* returns and main() goes on to its finally block (lines 81-88).
End(c, st) ==
    /\ tstate' = [tstate EXCEPT ![c] = st]
    /\ pc' = [pc EXCEPT ![c] = "end"]
    /\ waitOn' = [waitOn EXCEPT ![c] = NoTask]
    /\ running' = NoTask
    /\ loop' = IF c = R /\ loop = "running" THEN "drain" ELSE loop

\* How the task ends once shutdown() has returned: run_server re-raises
\* what made it leave the try block (lines 63-67).
AfterShutdown(c) ==
    IF c # R THEN "returned"
    ELSE IF exitCause = "raise" THEN "failed"
    ELSE IF exitCause = "cancel" THEN "cancelled"
    ELSE "returned"

(***************************************************************************)
(* run_server, lines 53-67.                                                *)
(***************************************************************************)
\* lines 55-62: initialize_client(), then mcp.run_async() suspends
RStart ==
    /\ CanStep /\ Tick
    /\ tstate[R] = "ready" /\ pc[R] = "init"
    /\ clientInits' = clientInits + 1
    /\ sharedClient' = "open"
    /\ tstate' = [tstate EXCEPT ![R] = "waitfut"]
    /\ pc' = [pc EXCEPT ![R] = "serving"]
    /\ UNCHANGED <<waitOn, mustCancel, running, sdTasks, exitCause, handlerVars,
                   bucket, apiKey, cleanupCalls, mcpCleanups, loop, unawaited,
                   okAfterTeardown>>

\* lines 63-67 and 29-32: the try block is left and shutdown() takes its
\* snapshot of the other tasks
EnterFinally(how) ==
    /\ exitCause' = how
    /\ sdTasks' = [sdTasks EXCEPT ![R] = all_tasks \ {R}]
    /\ running' = R
    /\ tstate' = [tstate EXCEPT ![R] = "ready"]
    /\ pc' = [pc EXCEPT ![R] = "sd_loop"]
    /\ mustCancel' = [mustCancel EXCEPT ![R] = FALSE]
    /\ UNCHANGED <<waitOn, handlerVars, bucket, apiKey, clientVars, loop,
                   unawaited, okAfterTeardown>>

\* mcp.run_async() returns or raises
RServeEnd ==
    /\ CanStep /\ Tick
    /\ tstate[R] = "waitfut" /\ pc[R] = "serving" /\ ~mustCancel[R]
    /\ \E how \in {"return", "raise"} : EnterFinally(how)

\* run_server is cancelled while in mcp.run_async()
RCancelled ==
    /\ CanStep /\ Tick
    /\ tstate[R] = "waitfut" /\ pc[R] = "serving" /\ mustCancel[R]
    /\ EnterFinally("cancel")

(***************************************************************************)
(* shutdown(), lines 27-45, run by run_server or by a task of its own.     *)
(***************************************************************************)
\* lines 29-32 in a task created by a signal handler
SdBegin(c) ==
    /\ CanStep /\ Tick
    /\ tstate[c] = "ready" /\ pc[c] = "sd_start" /\ ~mustCancel[c]
    /\ sdTasks' = [sdTasks EXCEPT ![c] = all_tasks \ {c}]
    /\ running' = c
    /\ pc' = [pc EXCEPT ![c] = "sd_loop"]
    /\ UNCHANGED <<tstate, waitOn, mustCancel, exitCause, handlerVars, bucket,
                   apiKey, clientVars, loop, unawaited, okAfterTeardown>>

\* lines 33-38, one iteration: task.cancel(), then await task.  A task that
\* is done is awaited without suspending; only CancelledError is caught.
SdPick(c) ==
    /\ running = c /\ pc[c] = "sd_loop" /\ sdTasks[c] # {}
    /\ \E x \in sdTasks[c] :
         /\ sdTasks' = [sdTasks EXCEPT ![c] = @ \ {x}]
         /\ mustCancel' = AfterCancel(x)
         /\ IF CancelRaises(x) \/ tstate[x] = "failed"
            THEN End(c, "failed")
            ELSE IF Done(x)
            THEN UNCHANGED <<tstate, pc, waitOn, running, loop>>
            ELSE /\ tstate' = [tstate EXCEPT ![c] =
                       IF AfterCancel(x)[c] THEN "wedged" ELSE "waittask"]
                 /\ waitOn' = [waitOn EXCEPT ![c] = x]
                 /\ running' = NoTask
                 /\ UNCHANGED <<pc, loop>>
    /\ UNCHANGED <<exitCause, handlerVars, bucket, apiKey, clientVars, drainLeft,
                   unawaited, okAfterTeardown>>

\* lines 36-38: the awaited task is done and shutdown() resumes
SdResume(c) ==
    /\ CanStep /\ Tick
    /\ tstate[c] = "waittask" /\ Done(waitOn[c])
    /\ mustCancel' = [mustCancel EXCEPT ![c] = FALSE]
    /\ IF ~mustCancel[c] /\ tstate[waitOn[c]] = "failed"
       THEN /\ End(c, "failed")
       ELSE /\ tstate' = [tstate EXCEPT ![c] = "ready"]
            /\ waitOn' = [waitOn EXCEPT ![c] = NoTask]
            /\ running' = c
            /\ UNCHANGED <<pc, loop>>
    /\ UNCHANGED <<sdTasks, exitCause, handlerVars, bucket, apiKey, clientVars,
                   unawaited, okAfterTeardown>>

\* line 41: cleanup_client() closes the shared client if there is one
SdCleanup(c) ==
    /\ running = c /\ pc[c] = "sd_loop" /\ sdTasks[c] = {}
    /\ cleanupCalls' = cleanupCalls + 1
    /\ IF sharedClient = "open"
       THEN /\ sharedClient' = "closed"
            /\ tstate' = [tstate EXCEPT ![c] = "waitfut"]
            /\ pc' = [pc EXCEPT ![c] = "sd_cleanup"]
            /\ running' = NoTask
       ELSE /\ pc' = [pc EXCEPT ![c] = "sd_mcp"]
            /\ UNCHANGED <<sharedClient, tstate, running>>
    /\ UNCHANGED <<waitOn, mustCancel, sdTasks, exitCause, handlerVars, bucket,
                   apiKey, clientInits, mcpCleanups, loop, drainLeft, unawaited,
                   okAfterTeardown>>

\* line 41: the client is closed and cleanup_client() returns
SdCleanupDone(c) ==
    /\ CanStep /\ Tick
    /\ tstate[c] = "waitfut" /\ pc[c] = "sd_cleanup" /\ ~mustCancel[c]
    /\ tstate' = [tstate EXCEPT ![c] = "ready"]
    /\ pc' = [pc EXCEPT ![c] = "sd_mcp"]
    /\ running' = c
    /\ UNCHANGED <<waitOn, mustCancel, sdTasks, exitCause, handlerVars, bucket,
                   apiKey, clientVars, loop, unawaited, okAfterTeardown>>

\* lines 42-45: mcp.cleanup(), and shutdown() returns
SdFinish(c) ==
    /\ running = c /\ pc[c] = "sd_mcp"
    /\ mcpCleanups' = mcpCleanups + 1
    /\ End(c, AfterShutdown(c))
    /\ UNCHANGED <<mustCancel, sdTasks, exitCause, handlerVars, bucket, apiKey,
                   sharedClient, clientInits, cleanupCalls, drainLeft, unawaited,
                   okAfterTeardown>>

\* shutdown() is cancelled outside the try of lines 35-38
SdCancelled(c) ==
    /\ CanStep /\ Tick
    /\ mustCancel[c]
    /\ \/ tstate[c] = "ready" /\ pc[c] = "sd_start"
       \/ tstate[c] = "waitfut" /\ pc[c] = "sd_cleanup"
    /\ mustCancel' = [mustCancel EXCEPT ![c] = FALSE]
    /\ End(c, "cancelled")
    /\ UNCHANGED <<sdTasks, exitCause, handlerVars, bucket, apiKey, clientVars,
                   unawaited, okAfterTeardown>>

\* line 50: SIGTERM or SIGINT is delivered: create_task(shutdown())
Signal(c) ==
    /\ running = NoTask /\ loop = "running"
    /\ pc[R] # "init"
    /\ tstate[c] = "absent"
    /\ \A d \in Shutdowns : d[2] < c[2] => tstate[d] # "absent"
    /\ tstate' = [tstate EXCEPT ![c] = "ready"]
    /\ pc' = [pc EXCEPT ![c] = "sd_start"]
    /\ UNCHANGED <<waitOn, mustCancel, running, sdTasks, exitCause, handlerVars,
                   bucket, apiKey, clientVars, loop, drainLeft, unawaited,
                   okAfterTeardown>>

\* lines 21-25 and 75: the loop reports an unhandled exception.  The handler
\* is a coroutine function: calling it creates a coroutine that nothing
\* awaits, so its body does not run.
LoopException ==
    /\ running = NoTask /\ loop = "running"
    /\ unawaited < MaxLoopErrors
    /\ unawaited' = unawaited + 1
    /\ UNCHANGED <<taskVars, sdTasks, exitCause, handlerVars, bucket, apiKey,
                   clientVars, loop, drainLeft, okAfterTeardown>>

\* A task that is no handler is resumed with the cancellation: it ends
\* cancelled, or with an exception of its own.
OtherEnds ==
    /\ CanStep /\ Tick
    /\ tstate[Other] = "waitfut" /\ mustCancel[Other]
    /\ \E st \in {"cancelled", "failed"} : End(Other, st)
    /\ mustCancel' = [mustCancel EXCEPT ![Other] = FALSE]
    /\ UNCHANGED <<sdTasks, exitCause, handlerVars, bucket, apiKey, clientVars,
                   unawaited, okAfterTeardown>>

\* line 89: loop.close()
LoopClose ==
    /\ running = NoTask /\ loop = "drain"
    /\ loop' = "closed"
    /\ UNCHANGED <<taskVars, sdTasks, exitCause, handlerVars, bucket, apiKey,
                   clientVars, drainLeft, unawaited, okAfterTeardown>>

(***************************************************************************)
(* The process: the whole lifecycle, with signals.                         *)
(***************************************************************************)
Next ==
    \/ RStart
    \/ RServeEnd
    \/ RCancelled
    \/ \E h \in LifecycleHandlers : Invoke(h, FALSE)
    \/ \E h \in LifecycleHandlers : HandlerStart(h)
    \/ \E h \in LifecycleHandlers : AcquireResume(h)
    \/ \E h \in LifecycleHandlers : Respond(h, FALSE)
    \/ \E h \in LifecycleHandlers : HandlerCancelled(h)
    \/ \E h \in LifecycleHandlers : Forget(h)
    \/ Refill
    \/ \E c \in Shutdowns : Signal(c)
    \/ \E c \in Shutdowns : SdBegin(c)
    \/ \E c \in Runners : SdPick(c)
    \/ \E c \in Runners : SdResume(c)
    \/ \E c \in Runners : SdCleanup(c)
    \/ \E c \in Runners : SdCleanupDone(c)
    \/ \E c \in Runners : SdFinish(c)
    \/ \E c \in Runners : SdCancelled(c)
    \/ OtherEnds
    \/ LoopException
    \/ LoopClose

Init == InitWith({None})

Spec == Init /\ [][Next]_vars

(***************************************************************************)
(* The handlers in detail: every argument and outcome for the first        *)
(* invocation, a second invocation beside it, no signals.                  *)
(***************************************************************************)
First(h) == h[2] = 1

HandlerNext ==
    \/ RStart
    \/ RServeEnd
    \/ \E h \in Handlers : Invoke(h, First(h))
    \/ \E h \in Handlers : HandlerStart(h)
    \/ \E h \in Handlers : AcquireResume(h)
    \/ \E h \in Handlers : Respond(h, First(h))
    \/ \E h \in Handlers : HandlerCancelled(h)
    \/ Refill
    \/ SdPick(R)
    \/ SdResume(R)
    \/ SdCleanup(R)
    \/ SdCleanupDone(R)
    \/ SdFinish(R)
    \/ OtherEnds
    \/ LoopClose

HandlerInit == InitWith({None, Str(""), Str("KEY")})

HandlerSpec == HandlerInit /\ [][HandlerNext]_vars

(***************************************************************************)
(* The lifecycle under the fairness of the event loop: a task that can run *)
(* is run, a request gets its response or its timeout, the budget refills, *)
(* and main() closes the loop.  Signals, invocations and the end of        *)
(* mcp.run_async() are up to the environment.                              *)
(***************************************************************************)
Fairness ==
    /\ WF_vars(RStart)
    /\ WF_vars(RCancelled)
    /\ WF_vars(Refill)
    /\ WF_vars(OtherEnds)
    /\ WF_vars(LoopClose)
    /\ \A h \in LifecycleHandlers :
          /\ WF_vars(HandlerStart(h))
          /\ WF_vars(AcquireResume(h))
          /\ WF_vars(Respond(h, FALSE))
          /\ WF_vars(HandlerCancelled(h))
    /\ \A c \in Runners :
          /\ WF_vars(SdPick(c))
          /\ WF_vars(SdResume(c))
          /\ WF_vars(SdCleanup(c))
          /\ WF_vars(SdCleanupDone(c))
          /\ WF_vars(SdFinish(c))
          /\ WF_vars(SdCancelled(c))
    /\ \A c \in Shutdowns : WF_vars(SdBegin(c))

FairSpec == Spec /\ Fairness

(***************************************************************************)
(* Properties.                                                             *)
(***************************************************************************)
\* The arguments violate a local precondition of the handler.
InvalidArgs(t, a) ==
    \/ a.limit > 500
    \/ t = "single" /\ a.from_pool \notin {"recent", "all-cs"}
    \/ t = "multi" /\ a.positive_paper_ids \in {None, List(<<>>)}

Returned(h) == tstate[h] = "returned"
InFlight(h) == tstate[h] \in {"ready", "waitfut"}

\* C1, as claimed: every invocation that ends has returned a value, whatever
\* the outcome of acquire and of the request, cancellation included.
AlwaysReturnsValue ==
    \A h \in Handlers : Done(h) => Returned(h) /\ HasResult(result[h])

\* C1, amended: an invocation ends by returning a value (the body or an
\* envelope) for every outcome of acquire and of the request; only when it
\* is cancelled at a suspension point does it end cancelled, without a
\* value.  No step ends an invocation with a raised failure.
ReturnsValueUnlessCancelled ==
    [][\A h \in Handlers :
          (~Done(h) /\ Done(h)') =>
              IF mustCancel[h]
              THEN tstate'[h] = "cancelled" /\ result'[h] = NoResult
              ELSE /\ tstate'[h] = "returned"
                   /\ HasResult(result'[h])
                   /\ ~Raised(result'[h])]_vars

\* C1, witness: an invocation cancelled while its request was under way,
\* beside one that returned an envelope for a failure raised by the request.
CancelledMidRequest ==
    \E h, g \in Handlers :
        /\ tstate[h] = "cancelled" /\ requests[h] = 1 /\ result[h] = NoResult
        /\ Returned(g) /\ outcome[g] = [type |-> "error", error |-> "ConnectError"]
        /\ IsEnvelope(result[g])

\* C2, as claimed: an invocation with invalid arguments returns a VALIDATION
\* envelope and sends nothing, and whenever limit > 500 the details are
\* exactly {max_limit: 500, requested: limit}.
InvalidArgsRejected ==
    \A h \in Handlers :
        (tool[h] # "none" /\ InvalidArgs(tool[h], args[h])) =>
            /\ requests[h] = 0
            /\ Returned(h) =>
                  /\ IsEnvelope(result[h])
                  /\ result[h].kind = "VALIDATION"
                  /\ args[h].limit > 500 =>
                        result[h].details =
                            [max_limit |-> 500, requested |-> args[h].limit]

\* C2, amended: as claimed, except that the multi-paper handler checks
\* positive_paper_ids first: with an empty positive_paper_ids the envelope
\* is the one of that check, whose details are empty, also when limit > 500.
InvalidArgsRejectedFirstCheck ==
    \A h \in Handlers :
        (tool[h] # "none" /\ InvalidArgs(tool[h], args[h])) =>
            /\ requests[h] = 0
            /\ Returned(h) =>
                  /\ IsEnvelope(result[h])
                  /\ result[h].kind = "VALIDATION"
                  /\ IF tool[h] = "multi"
                          /\ args[h].positive_paper_ids \in {None, List(<<>>)}
                     THEN result[h].details = NoDetails
                     ELSE args[h].limit > 500 =>
                             result[h].details =
                                 [max_limit |-> 500, requested |-> args[h].limit]

\* C2, witness: the multi-paper handler has rejected limit = 501 with the
\* details of the limit check, having sent nothing.
LimitRejected ==
    \E h \in Handlers :
        /\ Returned(h) /\ tool[h] = "multi" /\ args[h].limit = 501
        /\ args[h].positive_paper_ids = List(<<"p1">>)
        /\ result[h].details = [max_limit |-> 500, requested |-> 501]
        /\ requests[h] = 0

\* C3: an invocation that fails validation has returned its envelope
\* without having called rate_limiter.acquire.
ValidationBeforeAcquire ==
    \A h \in Handlers :
        (Returned(h) /\ InvalidArgs(tool[h], args[h])) => acquireCalls[h] = 0

\* C4: once cleanup_client has closed the shared client, no invocation
\* obtains a successful upstream response.
NoSuccessAfterTeardown == ~okAfterTeardown

\* The client objects that are open: the shared one and the handlers' own.
LiveClients ==
    Cardinality({h \in Handlers : ownClient[h]})
        + (IF sharedClient = "open" THEN 1 ELSE 0)

\* C5: no invocation constructs a client of its own, and at most one client
\* is live at any moment.
OneSharedClient ==
    /\ \A h \in Handlers : ~ownClient[h]
    /\ LiveClients <= 1

\* C6: over a run, cleanup_client is performed exactly once: never twice,
\* and once by the time the process ends.
CleanupExactlyOnce ==
    /\ cleanupCalls <= 1
    /\ loop = "closed" => cleanupCalls = 1

\* A signal has created a shutdown task, or run_server has entered its
\* finally block.
ShutdownTriggered ==
    \/ \E c \in Shutdowns : tstate[c] # "absent"
    \/ exitCause # "none"

\* C7: once a shutdown has been triggered, cleanup_client is eventually
\* called and a shutdown run eventually completes.
ShutdownCompletes ==
    ShutdownTriggered ~> (cleanupCalls > 0 /\ mcpCleanups > 0)

\* Runner c is about to call cleanup_client: its loop over the snapshot is
\* finished.
AtCleanup(c) == running = c /\ pc[c] = "sd_loop" /\ sdTasks[c] = {}

\* C8: at the moment shutdown calls cleanup_client, no handler invocation
\* is in flight.
NoHandlerInFlightAtCleanup ==
    \A c \in Runners : AtCleanup(c) => \A h \in Handlers : ~InFlight(h)

\* The invocation has passed validation and its request has ended.
Answered(h) == Returned(h) /\ outcome[h] # NoOutcome

OtherStatus(status) ==
    ~(status >= 200 /\ status <= 299) /\ status \notin {404, 429}

KindIs(r, kind) == IsEnvelope(r) /\ r.kind = kind

\* What the claim gives for every outcome but a 2xx response.
MapsFailure(o, r) ==
    CASE o.type = "timeout" ->
             KindIs(r, "TIMEOUT") /\ r.message.value = TIMEOUT
      [] o.type = "error" -> KindIs(r, "API_ERROR")
      [] o.type = "response" /\ o.status = 404 -> KindIs(r, "VALIDATION")
      [] o.type = "response" /\ o.status = 429 -> KindIs(r, "RATE_LIMIT")
      [] OTHER -> KindIs(r, "API_ERROR")

Is2xx(o) == o.type = "response" /\ o.status >= 200 /\ o.status <= 299

\* C9, as claimed: the value returned is fixed by the outcome of the
\* request: 2xx gives the parsed body unchanged, 404 VALIDATION, 429
\* RATE_LIMIT, another status API_ERROR, a timeout TIMEOUT with the
\* configured value in the message, another failure API_ERROR.
OutcomeMapping ==
    \A h \in Handlers :
        Answered(h) =>
            IF Is2xx(outcome[h])
            THEN ~IsEnvelope(result[h]) /\ result[h] = json(outcome[h].text)
            ELSE MapsFailure(outcome[h], result[h])

\* C9, amended: as claimed, except that 2xx gives the parsed body only
\* when the body parses as JSON; a 2xx response whose body does not parse
\* (an empty body, a non-JSON body) falls under "any other raised failure"
\* and returns kind API_ERROR.
OutcomeMappingParsedBody ==
    \A h \in Handlers :
        Answered(h) =>
            IF Is2xx(outcome[h])
            THEN IF Raised(json(outcome[h].text))
                 THEN KindIs(result[h], "API_ERROR")
                 ELSE ~IsEnvelope(result[h])
                         /\ result[h] = json(outcome[h].text)
            ELSE MapsFailure(outcome[h], result[h])

\* C9, witness: the two handlers have both answered their requests, one
\* of them with a RATE_LIMIT envelope for a 429.
BothAnswered ==
    \E h, g \in Handlers :
        /\ Answered(h) /\ tool[h] = "single"
        /\ outcome[h].type = "response" /\ outcome[h].status = 429
        /\ KindIs(result[h], "RATE_LIMIT")
        /\ Answered(g) /\ tool[g] = "multi"

\* C10: for a non-2xx status other than 404 and 429 the details of the
\* API_ERROR envelope hold the numeric status and the raw body text (the
\* body under the key "response", the status under another key).
ApiErrorDetails ==
    \A h \in Handlers :
        (Answered(h) /\ outcome[h].type = "response"
                     /\ OtherStatus(outcome[h].status)) =>
            /\ KindIs(result[h], "API_ERROR")
            /\ \E k \in DOMAIN result[h].details :
                  result[h].details[k] = outcome[h].text
            /\ \E k \in DOMAIN result[h].details \ {"response"} :
                  result[h].details[k] = outcome[h].status

\* C11: for a 429 the details of the RATE_LIMIT envelope are retry_after,
\* the value of the response's retry-after header (None when the header is
\* absent), and authenticated, whether the request that failed carried the
\* credential header.
RateLimitDetails ==
    \A h \in Handlers :
        (Answered(h) /\ outcome[h].type = "response" /\ outcome[h].status = 429) =>
            /\ KindIs(result[h], "RATE_LIMIT")
            /\ DOMAIN result[h].details = {"retry_after", "authenticated"}
            /\ result[h].details.retry_after = outcome[h].retry_after
            /\ result[h].details.authenticated =
                   ("x_api_key" \in DOMAIN sent[h].headers)

\* C11, witness: a request sent with the credential header was answered
\* 429 with retry-after: 30, and the envelope says so.
RateLimitedWithKey ==
    \E h \in Handlers :
        /\ Answered(h) /\ outcome[h].type = "response"
        /\ outcome[h].status = 429
        /\ outcome[h].retry_after = Str("30")
        /\ sent[h].headers = [x_api_key |-> "KEY"]
        /\ result[h].details = [retry_after |-> Str("30"), authenticated |-> TRUE]

\* C12: the details of every VALIDATION envelope returned for a local
\* precondition violation name the violated constraint and the offending
\* value the caller gave: the limit, the from_pool option, the empty
\* positive_paper_ids list.  (The constraint stands under the keys
\* max_limit and valid_pools; the offending value under another key.)
ValidationDetailsNameValue ==
    \A h \in Handlers :
        (Returned(h) /\ InvalidArgs(tool[h], args[h])) =>
            /\ KindIs(result[h], "VALIDATION")
            /\ DOMAIN result[h].details # {}
            /\ \E k \in DOMAIN result[h].details \ {"max_limit", "valid_pools"} :
                  \/ /\ args[h].limit > 500
                     /\ k = "requested"
                     /\ result[h].details[k] = args[h].limit
                  \/ /\ tool[h] = "single"
                     /\ args[h].from_pool \notin {"recent", "all-cs"}
                     /\ k # "requested"
                     /\ result[h].details[k] = args[h].from_pool
                  \/ /\ tool[h] = "multi"
                     /\ args[h].positive_paper_ids \in {None, List(<<>>)}
                     /\ k # "requested"
                     /\ result[h].details[k] = args[h].positive_paper_ids

\* rate_limiter.acquire returns to handler h in this step.
AcquireReturns(h) ==
    /\ pc[h] \in {"start", "acquire"}
    /\ pc'[h] \notin {"start", "acquire"}
    /\ tstate'[h] # "cancelled"

\* C13: an invocation issues at most one request; it issues exactly one at
\* the moment acquire returns when its arguments pass validation, and none
\* then when they do not; once the request is out, no step of the
\* invocation, whatever the outcome, issues another.
AtMostOneRequest ==
    [][\A h \in Handlers :
          /\ requests'[h] \in {0, 1}
          /\ requests'[h] >= requests[h]
          /\ AcquireReturns(h) =>
                requests'[h] = IF InvalidArgs(tool[h], args[h]) THEN 0 ELSE 1
          /\ pc[h] = "request" => requests'[h] = requests[h]]_vars

\* C13, witness: an invocation whose request timed out has returned with
\* one request issued.
TimedOutOnce ==
    \E h \in Handlers :
        /\ Answered(h) /\ outcome[h].type = "timeout"
        /\ KindIs(result[h], "TIMEOUT")
        /\ requests[h] = 1

\* C14: for a 404 the details of the VALIDATION envelope echo the
\* identifiers the caller gave: paper_id in the single-paper handler, the
\* positive and the negative list in the multi-paper handler; the 404 rule
\* comes before the rule for the other non-2xx statuses (no API_ERROR).
NotFoundEchoesIds ==
    \A h \in Handlers :
        (Answered(h) /\ outcome[h].type = "response" /\ outcome[h].status = 404) =>
            /\ KindIs(result[h], "VALIDATION")
            /\ result[h].details =
                   IF tool[h] = "single"
                   THEN [paper_id |-> args[h].paper_id]
                   ELSE [positive_ids |-> args[h].positive_paper_ids,
                         negative_ids |-> args[h].negative_paper_ids]

\* C14, witness: the multi-paper handler has answered a 404 with both of
\* the caller's lists in the details.
MultiNotFound ==
    \E h \in Handlers :
        /\ Answered(h) /\ tool[h] = "multi"
        /\ outcome[h].type = "response" /\ outcome[h].status = 404
        /\ result[h].details = [positive_ids |-> List(<<"p1">>),
                                negative_ids |-> List(<<"n1">>)]

\* C15: every request is sent with exactly one acquire called and completed
\* before it in the same invocation, and every acquire of either handler
\* draws on the one budget of "/recommendations": no step touches the
\* budget of another endpoint identifier.
OneSharedBudget ==
    [][/\ \A h \in Handlers :
             requests'[h] > requests[h] =>
                 /\ acquireCalls'[h] = 1
                 /\ bucket'["/recommendations"] = bucket["/recommendations"] - 1
       /\ \A e \in Endpoints \ {"/recommendations"} : bucket'[e] = bucket[e]]_vars

\* C15, witness: a single-paper and a multi-paper invocation have both sent
\* their request, each after one acquire, and the one budget is used up.
BothDrewOnBudget ==
    \E h, g \in Handlers :
        /\ tool[h] = "single" /\ tool[g] = "multi"
        /\ requests[h] = 1 /\ requests[g] = 1
        /\ acquireCalls[h] = 1 /\ acquireCalls[g] = 1
        /\ InFlight(h) /\ InFlight(g)
        /\ bucket["/recommendations"] = 0

\* Handler h is suspended in rate_limiter.acquire or in its request.
Suspended(h) == tstate[h] = "waitfut" /\ pc[h] \in {"acquire", "request"}

\* C16: an invocation that shutdown cancels while it is suspended in
\* acquire or in its request ends cancelled: no envelope is returned, no
\* request is started or continued afterwards, and the shutdown run that
\* awaits it goes on with its loop when it resumes.
CancelledEndsCancelled ==
    [][/\ \A h \in Handlers :
             (Suspended(h) /\ mustCancel[h] /\ tstate'[h] # tstate[h]) =>
                 /\ tstate'[h] = "cancelled"
                 /\ result'[h] = NoResult
                 /\ requests'[h] = requests[h]
                 /\ ~ownClient'[h]
       /\ \A h \in Handlers :
             tstate[h] = "cancelled" =>
                 /\ tstate'[h] \in {"cancelled", "absent"}
                 /\ requests'[h] <= requests[h]
                 /\ ~ownClient'[h]
       /\ \A c \in Runners : \A h \in Handlers :
             (tstate[c] = "waittask" /\ waitOn[c] = h
                  /\ tstate[h] = "cancelled" /\ tstate'[c] # "waittask") =>
                 /\ tstate'[c] = "ready"
                 /\ running' = c
                 /\ pc'[c] = "sd_loop"]_vars

\* C16, witness: an invocation was cancelled while suspended in acquire (it
\* had called acquire and sent nothing), and a shutdown run has since gone
\* on to call cleanup_client.
ShutdownWentOn ==
    \E h \in Handlers :
        /\ tstate[h] = "cancelled" /\ result[h] = NoResult
        /\ acquireCalls[h] = 1 /\ requests[h] = 0
        /\ cleanupCalls > 0

\* C17: when the loop reports an unhandled exception to the installed
\* handler, a shutdown run is scheduled: once the handler has been called,
\* a task running shutdown() exists.
ExceptionSchedulesShutdown ==
    [][unawaited' > unawaited =>
          \E c \in Shutdowns : tstate'[c] # "absent"]_vars

====
